---- MODULE Spec2Model ----
(***************************************************************************)
(* A model of the bemapi sample server (src/server.py, a Flask             *)
(* application) and sample client (src/client.py).                         *)
(*                                                                         *)
(* A Python string that the code takes apart (a URI, a route segment, a    *)
(* header value) is the sequence of its pieces: "http://h/v1/gameX/o1" is  *)
(* <<"http://h", "/", "v1", "/", "gameX", "/", "o", "1">>.  Other strings  *)
(* (messages, keys, ID types, object kinds) are TLA+ strings.              *)
(*                                                                         *)
(* One request is in progress at a time.  The request line and headers     *)
(* arrive first (before_request runs on them); the body is decoded when    *)
(* the view calls request.get_json(), which is where the model draws it    *)
(* for a request that does not come from the modelled client.              *)
(***************************************************************************)
EXTENDS Integers, Sequences, FiniteSets, TLC

VARIABLES
    debug,        \* app.debug: TRUE under app.run(debug=True), FALSE under a WSGI host
    pc,           \* "idle", "foreign", "dispatch", "responded", "done"
    request,      \* request line and headers of the request in progress
    stream,       \* the request body on the wire, or Unsent while the sender has not fixed it
    g,            \* flask.g as the last before_request left it: the model does not rely
                  \* on the framework handing each request a fresh one
    requestdata,  \* what request.get_json() gave the view, or Unread
    raised,       \* the exception the request raised, or NoException
    passed,       \* the checks of the view this request has passed
    fetched,      \* the fetch_<version> invocations of this request, in order
    response,     \* the response of the server, or NoResponse
    client,       \* the APIClient in use and its call, or NoClient
    result,       \* how the client's call ended, or NoResult
    history       \* history variable: the first request this server answered and its
                  \* response, where the behaviour keeps one (SpecRepeat)

vars == <<debug, pc, request, stream, g, requestdata, raised, passed, fetched,
          response, client, result, history>>

(***************************************************************************)
(* Bounds of the input sets.                                               *)
(***************************************************************************)
MaxIds == 3
MaxObjects == 3

(***************************************************************************)
(* Values.                                                                 *)
(***************************************************************************)
Range(s) == {s[i] : i \in DOMAIN s}

SUPPORTED_VERSIONS == << <<"v1">> >>

JSON_CONTENT_TYPE == "application/json; charset=utf-8"

HTML_CONTENT_TYPE == "text/html; charset=utf-8"

NoException == [class |-> "None"]

APIException(msg) == [class |-> "APIException", args |-> <<msg>>]

HTTPException(status) == [class |-> "HTTPException", code |-> status]

AttributeError == [class |-> "AttributeError"]

TypeError == [class |-> "TypeError"]

(***************************************************************************)
(* The result of running a piece of Python: a value, or a raised exception.*)
(***************************************************************************)
Return(v) == [raise |-> NoException, value |-> v]

Raise(e) == [raise |-> e, value |-> <<>>]

Raised(o) == o.raise.class # "None"

Unsent == [kind |-> "unsent", value |-> <<>>]

Unread == [kind |-> "unread", value |-> <<>>]

Undecodable == [kind |-> "undecodable", value |-> <<>>]

JsonNull == [kind |-> "null", value |-> <<>>]

JsonObject(v) == [kind |-> "object", value |-> v]

NoResponse == [status_code |-> 0, headers |-> <<>>, body |-> Unsent]

NoRequest == [path |-> <<>>, headers |-> <<>>]

NoClient == [call |-> "none", base_uri |-> <<>>, token |-> "", args |-> <<>>, uri |-> <<>>]

NoResult == [state |-> "none", exchange |-> Return(<<>>), final |-> Return(<<>>)]

NoG == <<>>

\* The history variable: "off" where no history is kept, "empty" until the first
\* request is answered, "recorded" from then on.  between: an authorized request
\* other than the recorded one has been answered since.
NoHistory ==
    [state |-> "off", request |-> NoRequest, stream |-> Unsent, response |-> NoResponse,
     between |-> FALSE]


(***************************************************************************)
(* src/server.py: responses and error handlers.                            *)
(***************************************************************************)
jsonify_response(data, code) ==
    [status_code |-> code,
     headers |-> ("content-type" :> JSON_CONTENT_TYPE),
     body |-> JsonObject(data)]

server_exception(exception) ==
    jsonify_response([error |-> "Exception occured while processing request."], 500)

\* api_exception answering every APIException with 401 and its message.
api_exception_Unauthorized(exception) ==
    Return(jsonify_response([error |-> exception.args[1]], 401))

\* exception.message and exception.code are read; class APIException defines
\* neither, so for an instance built by APIException(msg) the read raises.
api_exception(exception) ==
    IF "message" \in DOMAIN exception /\ "code" \in DOMAIN exception
    THEN Return(jsonify_response([error |-> exception.message], exception.code))
    ELSE Raise(AttributeError)

server_error(error) ==
    jsonify_response([error |-> "Exception occured while processing request."], 500)

protocol_error(error) ==
    jsonify_response([error |-> "Unsupported protocol version in request."], 501)

bad_json(error) ==
    jsonify_response([error |-> "Request JSON could not be decoded."], 500)

unrecognized_object(error) ==
    jsonify_response([error |-> "Unrecognized request game/version or object."], 404)

invalid_request(error) ==
    jsonify_response([error |-> "Invalid request URI or method."], 405)

\* The interactive debugger page the development server of app.run(debug=True)
\* answers with when an exception leaves the application.
debugger_page ==
    [status_code |-> 500,
     headers |-> ("content-type" :> HTML_CONTENT_TYPE),
     body |-> Undecodable]

\* Flask's choice among the handlers registered with @app.errorhandler: an
\* HTTPException goes to the handler of its code, any other exception to the
\* handler of the closest class.
handle_user_exception(e) ==
    CASE e.class = "HTTPException" /\ e.code = 400 -> Return(bad_json(e))
      [] e.class = "HTTPException" /\ e.code = 404 -> Return(unrecognized_object(e))
      [] e.class = "HTTPException" /\ e.code = 405 -> Return(invalid_request(e))
      [] e.class = "HTTPException" /\ e.code = 500 -> Return(server_error(e))
      [] e.class = "HTTPException" /\ e.code = 501 -> Return(protocol_error(e))
      [] e.class = "APIException" -> api_exception(e)
      [] OTHER -> Return(server_exception(e))

\* An exception raised by an error handler itself leaves the request dispatch:
\* in debug mode it propagates to the development server, otherwise Flask
\* answers with the handler registered for 500.
handle_exception(e, dbg) ==
    IF dbg THEN debugger_page ELSE server_error(e)

\* The response to a request whose before_request hook or view raised e.
error_response(e, dbg) ==
    LET o == handle_user_exception(e)
    IN IF Raised(o) THEN handle_exception(o.raise, dbg) ELSE o.value

(***************************************************************************)
(* src/server.py: the authentication gate.                                 *)
(* A header value is the sequence of its words, separated by single spaces.*)
(***************************************************************************)
\* str.split(' ', 1): one element without a space, else the first word and the rest.
split1(words) ==
    IF Len(words) >= 2 THEN <<Head(words), Tail(words)>> ELSE <<Head(words)>>

\* str.lower() on the scheme words the model sends.
lower(s) ==
    CASE s \in {"Token", "token"} -> "token"
      [] s = "Basic" -> "basic"
      [] OTHER -> s

\* The value of g after before_request, or the exception it raises.
g_authorized(headers) ==
    IF "Authorization" \notin DOMAIN headers
    THEN Return([authorized |-> FALSE])
    ELSE LET parts == split1(headers["Authorization"])
         IN IF Len(parts) # 2
            \* ValueError on unpacking is caught, authtype = None; None.lower() raises
            THEN Raise(AttributeError)
            ELSE IF lower(parts[1]) = "token"
                 THEN Return([authorized |-> (parts[2] = <<"dummy_token">>)])
                 ELSE Return([authorized |-> FALSE])

unauthorized_response == jsonify_response([error |-> "Unauthorized client!"], 401)

(***************************************************************************)
(* src/server.py: routing.                                                 *)
(***************************************************************************)
\* The pieces of s between its "/" pieces.
RECURSIVE split_slash(_)
split_slash(s) ==
    IF s = <<>>
    THEN << <<>> >>
    ELSE LET rest == split_slash(Tail(s))
         IN IF Head(s) = "/"
            THEN << <<>> >> \o rest
            ELSE << <<Head(s)>> \o Head(rest) >> \o Tail(rest)

\* The segments of a request path, which starts with "/".
segments(path) == Tail(split_slash(path))

\* route taking a path of more than three segments for a lookup as well.
route_Prefix(path) ==
    LET segs == segments(path)
    IN CASE segs = << <<>> >> -> "info"
         [] Len(segs) >= 3 /\ \A i \in 1..3 : segs[i] # <<>> -> "lookup"
         [] OTHER -> "catch_all"

\* The URL map: '/' is info, '/<protoversion>/<requestgame>/<requestversion>'
\* is lookup, and '/<path:path>' takes every other path.
route(path) ==
    LET segs == segments(path)
    IN CASE segs = << <<>> >> -> "info"
         [] Len(segs) = 3 /\ \A i \in 1..3 : segs[i] # <<>> -> "lookup"
         [] OTHER -> "catch_all"

\* request.get_json(): a body that is not decodable aborts with 400; the JSON
\* value null is Python's None.
get_json(body) ==
    IF body.kind = "undecodable" THEN Raise(HTTPException(400)) ELSE Return(body)

(***************************************************************************)
(* src/server.py: the object handlers.                                     *)
(***************************************************************************)
\* Handlers without the registration of StatisticsObject.
Handlers_Unregistered ==
    [records |-> "RecordsObject", profile |-> "ProfileObject"]

Handlers ==
    [records |-> "RecordsObject", profile |-> "ProfileObject",
     statistics |-> "StatisticsObject"]

BaseObject(class, game, version, omnimix) ==
    [class |-> class, game |-> game, version |-> version, omnimix |-> omnimix]

\* getattr(inst, 'fetch_<protoversion>'): every class has fetch_v1 and no other.
has_fetch(inst, protoversion) == protoversion = <<"v1">>

\* fetch_v1 of RecordsObject, StatisticsObject and ProfileObject returns [];
\* that of BaseObject raises.
fetch_v1(inst, idtype, ids, params) ==
    IF inst.class \in {"RecordsObject", "StatisticsObject", "ProfileObject"}
    THEN Return(<<>>)
    ELSE Raise(APIException("Object fetch not supported for this version!"))

(***************************************************************************)
(* src/server.py: the parts of lookup.                                     *)
(***************************************************************************)
\* The key checks on the decoded body: the exception raised, or NoException.
lookup_envelope(data) ==
    IF data.kind = "null"
    THEN TypeError      \* 'type' in None
    ELSE IF \E expected \in {"type", "ids", "objects"} : expected \notin DOMAIN data.value
    THEN APIException("Missing parameters for request.")
    ELSE IF \E param \in DOMAIN data.value :
                param \notin {"type", "ids", "objects", "since", "until"}
    THEN APIException("Unrecognized parameters for request.")
    ELSE NoException

\* args: a copy of the body without 'type', 'ids' and 'objects'.
lookup_args(data) ==
    [k \in DOMAIN data.value \ {"type", "ids", "objects"} |-> data.value[k]]

\* lookup_version without the gate.
lookup_version_Ungated(protoversion) == NoException

lookup_version(protoversion) ==
    IF protoversion \notin Range(SUPPORTED_VERSIONS)
    THEN HTTPException(501)
    ELSE NoException

\* lookup_omnimix setting the flag and leaving the version as it came.
lookup_omnimix_Keep(requestversion) ==
    IF requestversion[1] = "o"
    THEN [omnimix |-> TRUE, requestversion |-> requestversion]
    ELSE [omnimix |-> FALSE, requestversion |-> requestversion]

lookup_omnimix(requestversion) ==
    IF requestversion[1] = "o"
    THEN [omnimix |-> TRUE, requestversion |-> Tail(requestversion)]
    ELSE [omnimix |-> FALSE, requestversion |-> requestversion]

\* lookup_ids without the check of 'instance'.
lookup_ids_NoInstance(idtype, ids) ==
    IF idtype \notin {"card", "song", "instance", "server"}
    THEN APIException("Invalid ID type provided!")
    ELSE IF idtype = "card" /\ Len(ids) = 0
    THEN APIException("Invalid number of IDs given!")
    ELSE IF idtype = "song" /\ Len(ids) \notin {1, 2}
    THEN APIException("Invalid number of IDs given!")
    ELSE IF idtype = "server" /\ Len(ids) # 0
    THEN APIException("Invalid number of IDs given!")
    ELSE NoException

\* The checks of the ID selector: the exception raised, or NoException.
lookup_ids(idtype, ids) ==
    IF idtype \notin {"card", "song", "instance", "server"}
    THEN APIException("Invalid ID type provided!")
    ELSE IF idtype = "card" /\ Len(ids) = 0
    THEN APIException("Invalid number of IDs given!")
    ELSE IF idtype = "song" /\ Len(ids) \notin {1, 2}
    THEN APIException("Invalid number of IDs given!")
    ELSE IF idtype = "instance" /\ Len(ids) # 3
    THEN APIException("Invalid number of IDs given!")
    ELSE IF idtype = "server" /\ Len(ids) # 0
    THEN APIException("Invalid number of IDs given!")
    ELSE NoException

\* lookup_objects leaving the loop at an unknown kind instead of aborting.
RECURSIVE lookup_objects_Break(_, _, _, _)
lookup_objects_Break(objects, ctx, responsedata, calls) ==
    IF objects = <<>> \/ Head(objects) \notin DOMAIN Handlers
    THEN [raise |-> NoException, value |-> responsedata, fetched |-> calls]
    ELSE LET obj == Head(objects)
             inst == BaseObject(Handlers[obj], ctx.requestgame, ctx.requestversion,
                                ctx.omnimix)
             call == [obj |-> obj, inst |-> inst, idtype |-> ctx.idtype,
                      ids |-> ctx.ids, params |-> ctx.args]
         IN lookup_objects_Break(
                Tail(objects), ctx,
                [k \in DOMAIN responsedata \cup {obj} |->
                    IF k = obj THEN <<>> ELSE responsedata[k]],
                Append(calls, call))

\* The loop over requestdata['objects'], from the objects still to handle, the
\* responsedata built so far and the fetches made so far.
RECURSIVE lookup_objects(_, _, _, _)
lookup_objects(objects, ctx, responsedata, calls) ==
    IF objects = <<>>
    THEN [raise |-> NoException, value |-> responsedata, fetched |-> calls]
    ELSE LET obj == Head(objects)
         IN IF obj \notin DOMAIN Handlers
            THEN [raise |-> HTTPException(404), value |-> <<>>, fetched |-> calls]
            ELSE LET inst == BaseObject(Handlers[obj], ctx.requestgame,
                                        ctx.requestversion, ctx.omnimix)
                 IN IF ~has_fetch(inst, ctx.protoversion)
                    THEN [raise |-> HTTPException(501), value |-> <<>>, fetched |-> calls]
                    ELSE LET got == fetch_v1(inst, ctx.idtype, ctx.ids, ctx.args)
                             call == [obj |-> obj, inst |-> inst, idtype |-> ctx.idtype,
                                      ids |-> ctx.ids, params |-> ctx.args]
                         IN IF Raised(got)
                            THEN [raise |-> got.raise, value |-> <<>>,
                                  fetched |-> Append(calls, call)]
                            ELSE lookup_objects(
                                     Tail(objects), ctx,
                                     [k \in DOMAIN responsedata \cup {obj} |->
                                         IF k = obj THEN got.value ELSE responsedata[k]],
                                     Append(calls, call))

\* The body of lookup: what it raises or returns, the checks it passed and the
\* fetches it made.
lookup_body(protoversion, requestgame, requestversion, data) ==
    LET stop(e, done) == [raise |-> e, value |-> <<>>, passed |-> done, fetched |-> <<>>]
        envelope == lookup_envelope(data)
        version == lookup_version(protoversion)
    IN IF envelope.class # "None" THEN stop(envelope, {})
       ELSE IF version.class # "None" THEN stop(version, {"envelope"})
       ELSE LET o == lookup_omnimix(requestversion)
                idtype == data.value["type"]
                ids == data.value["ids"]
                idcheck == lookup_ids(idtype, ids)
            IN IF idcheck.class # "None" THEN stop(idcheck, {"envelope", "version"})
               ELSE LET ctx == [protoversion |-> protoversion, requestgame |-> requestgame,
                                requestversion |-> o.requestversion, omnimix |-> o.omnimix,
                                idtype |-> idtype, ids |-> ids, args |-> lookup_args(data)]
                        loop == lookup_objects(data.value["objects"], ctx, <<>>, <<>>)
                    IN [raise |-> loop.raise, value |-> loop.value,
                        passed |-> {"envelope", "version", "ids"},
                        fetched |-> loop.fetched]

\* The body of info.
info_body(data) ==
    IF data.kind = "null"
    THEN Raise(APIException("Request JSON could not be decoded."))
    ELSE IF DOMAIN data.value # {}
    THEN Raise(APIException("Unrecognized parameters for request."))
    ELSE Return([versions |-> SUPPORTED_VERSIONS,
                 name |-> "Sample e-AMUSEMENT Server",
                 email |-> "nobody@nowhere.com"])

(***************************************************************************)
(* src/client.py: APIClient.                                               *)
(***************************************************************************)
API_VERSION == <<"v1">>

KeyError == [class |-> "KeyError"]

JSONDecodeError == [class |-> "JSONDecodeError"]

\* Exception(message): the message without what is formatted into it, and the
\* further arguments.
Exception(message, more) == [class |-> "Exception", message |-> message, more |-> more]

InvalidContentType == Exception("API returned invalid content type", <<>>)

MalformedErrorResponse ==
    Exception("API returned error code but did not include 'error' attribute", <<>>)

Unauthorized ==
    Exception("The API token used is not authorized against this server!", <<>>)

UnsupportedGameOrVersionOrObject ==
    Exception("The server does not support this game/version or request object", <<>>)

RequestNotRecognized == Exception("The server did not recognize the request", <<>>)

ServerInternalError ==
    Exception("The server had an error processing the request", <<>>)

UnsupportedProtocolVersion ==
    Exception("The server does not support this version of the API!", <<>>)

\* Exception('... status code {}!', format(r.status_code)): two arguments.
UnexpectedStatusCode(status) ==
    Exception("The server returned an invalid status code {}!", <<status>>)

InvalidIDType == Exception("Invalid ID type provided!", <<>>)

InvalidIDCount == Exception("Invalid number of IDs given!", <<>>)

\* join_uri putting a '/' after every base URI.
join_uri_AlwaysSlash(base_uri, request_uri) == base_uri \o <<"/">> \o request_uri

\* The URI exchange_data requests.
join_uri(base_uri, request_uri) ==
    LET last == IF base_uri = <<>> THEN <<>> ELSE <<base_uri[Len(base_uri)]>>
    IN IF last # <<"/">>
       THEN base_uri \o <<"/">> \o request_uri
       ELSE base_uri \o request_uri

\* The headers exchange_data sends.
request_headers(token) ==
    ("Authorization" :> <<"Token", token>>) @@ ("Content-Type" :> JSON_CONTENT_TYPE)

\* exchange_result mapping the status before it looks for the 'error' key.
exchange_result_StatusFirst(r) ==
    IF "content-type" \notin DOMAIN r.headers
    THEN Raise(KeyError)
    ELSE IF r.headers["content-type"] # JSON_CONTENT_TYPE
    THEN Raise(InvalidContentType)
    ELSE IF r.body.kind = "undecodable"
    THEN Raise(JSONDecodeError)
    ELSE LET jsondata == r.body.value
         IN IF r.status_code = 200 THEN Return(jsondata)
            ELSE IF r.status_code = 401 THEN Raise(Unauthorized)
            ELSE IF r.status_code = 404 THEN Raise(UnsupportedGameOrVersionOrObject)
            ELSE IF r.status_code = 405 THEN Raise(RequestNotRecognized)
            ELSE IF r.status_code = 500 THEN Raise(ServerInternalError)
            ELSE IF r.status_code = 501 THEN Raise(UnsupportedProtocolVersion)
            ELSE IF "error" \notin DOMAIN jsondata THEN Raise(MalformedErrorResponse)
            ELSE Raise(UnexpectedStatusCode(r.status_code))

\* What exchange_data makes of the response r: the value it returns or the
\* exception it raises.
exchange_result(r) ==
    IF "content-type" \notin DOMAIN r.headers
    THEN Raise(KeyError)
    ELSE IF r.headers["content-type"] # JSON_CONTENT_TYPE
    THEN Raise(InvalidContentType)
    ELSE IF r.body.kind = "undecodable"
    THEN Raise(JSONDecodeError)
    ELSE LET jsondata == r.body.value
         IN IF r.status_code = 200 THEN Return(jsondata)
            ELSE IF "error" \notin DOMAIN jsondata THEN Raise(MalformedErrorResponse)
            ELSE IF r.status_code = 401 THEN Raise(Unauthorized)
            ELSE IF r.status_code = 404 THEN Raise(UnsupportedGameOrVersionOrObject)
            ELSE IF r.status_code = 405 THEN Raise(RequestNotRecognized)
            ELSE IF r.status_code = 500 THEN Raise(ServerInternalError)
            ELSE IF r.status_code = 501 THEN Raise(UnsupportedProtocolVersion)
            ELSE Raise(UnexpectedStatusCode(r.status_code))

\* id_check accepting every selector.
id_check_Skipped(idtype, ids) == NoException

\* id_check taking 'instance' as the server does.
id_check_Instance(idtype, ids) ==
    IF idtype \notin {"card", "song", "instance", "server"}
    THEN InvalidIDType
    ELSE IF idtype = "card" /\ Len(ids) = 0
    THEN InvalidIDCount
    ELSE IF idtype = "song" /\ Len(ids) \notin {1, 2}
    THEN InvalidIDCount
    ELSE IF idtype = "instance" /\ Len(ids) # 3
    THEN InvalidIDCount
    ELSE IF idtype = "server" /\ Len(ids) # 0
    THEN InvalidIDCount
    ELSE NoException

\* __id_check: the exception raised, or NoException.
id_check(idtype, ids) ==
    IF idtype \notin {"card", "song", "server"}
    THEN InvalidIDType
    ELSE IF idtype = "card" /\ Len(ids) = 0
    THEN InvalidIDCount
    ELSE IF idtype = "song" /\ Len(ids) \notin {1, 2}
    THEN InvalidIDCount
    ELSE IF idtype = "server" /\ Len(ids) # 0
    THEN InvalidIDCount
    ELSE NoException

\* '{}/{}/{}'.format(self.API_VERSION, game, version)
lookup_uri(game, version) == API_VERSION \o <<"/">> \o game \o <<"/">> \o version

\* What the caller of exchange_data reads from the value it returned.
read_keys(resp, keys) ==
    IF \A k \in keys : k \in DOMAIN resp THEN Return(resp) ELSE Raise(KeyError)

(***************************************************************************)
(* The requests the model sends.                                           *)
(***************************************************************************)
AuthorizationValues ==
    {<<"Token", "dummy_token">>, <<"Token", "wrong">>, <<"Basic", "dummy_token">>,
     <<"dummy_token">>}

HeaderSets ==
    {("Content-Type" :> JSON_CONTENT_TYPE)}
    \cup {("Authorization" :> v) @@ ("Content-Type" :> JSON_CONTENT_TYPE) :
            v \in AuthorizationValues}

Games == {<<"gameX">>}

RequestVersions == {<<"1">>, <<"o", "1">>}

Paths ==
    {<<"/">>, <<"/", "v1">>, <<"/", "v1", "/", "gameX">>,
     <<"/", "v1", "/", "gameX", "/", "1", "/">>,
     <<"/", "v1", "/", "gameX", "/", "1", "/", "extra">>,
     <<"/", "v1", "/", "gameX", "/", "o", "o", "1">>}
    \cup {<<"/", p, "/">> \o game \o <<"/">> \o v :
            p \in {"v1", "v2"}, game \in Games, v \in RequestVersions}

IdTypes == {"card", "song", "instance", "server", "user"}

IdLists == {[i \in 1..n |-> "id"] : n \in 0..MaxIds}

\* 'profile' is what profile_exchange asks for; 'scores' is no kind of the server.
ObjectKinds == {"records", "statistics", "scores"}

ObjectLists == UNION {[1..n -> ObjectKinds] : n \in 0..MaxObjects}

Mandatory == {"type", "ids", "objects"}

Envelope(keys, idtype, ids, objects) ==
    [k \in keys |->
        CASE k = "type" -> idtype
          [] k = "ids" -> ids
          [] k = "objects" -> objects
          [] OTHER -> 0]

\* Bodies with the mandatory keys and none but 'since' and 'until' besides, with
\* every ID selector and object list; and the bodies the key checks refuse.
Bodies ==
    {Undecodable, JsonNull}
    \cup {JsonObject(Envelope(Mandatory \cup opt, t, ids, objs)) :
            opt \in SUBSET {"since", "until"}, t \in IdTypes,
            ids \in IdLists, objs \in ObjectLists}
    \cup {JsonObject(Envelope(keys, "card", <<"id">>, <<"records">>)) :
            keys \in {Mandatory \ {k} : k \in Mandatory}
                     \cup {{}, {"extra"}, Mandatory \cup {"extra"},
                           Mandatory \cup {"since", "extra"}}}

\* One body of each kind the views tell apart: the bodies of the behaviours that
\* keep a history.
RepeatBodies ==
    {Undecodable, JsonNull, JsonObject(<<>>),
     JsonObject(Envelope(Mandatory, "card", <<"id">>, <<"records">>)),
     JsonObject(Envelope(Mandatory \cup {"since"}, "song", <<"id", "id">>,
                         <<"records", "statistics">>)),
     JsonObject(Envelope(Mandatory, "server", <<>>, <<"records", "scores">>)),
     JsonObject(Envelope(Mandatory, "card", <<>>, <<"records">>)),
     JsonObject(Envelope(Mandatory, "user", <<"id">>, <<"records">>)),
     JsonObject(Envelope(Mandatory \ {"type"}, "card", <<"id">>, <<"records">>)),
     JsonObject(Envelope(Mandatory \cup {"extra"}, "card", <<"id">>, <<"records">>))}

\* The clients the model runs: against this server, with and without a
\* trailing slash in the base URI, and against some other HTTP server.
Clients ==
    [base_uri : {<<"http://h">>, <<"http://h", "/">>}, token : {"dummy_token", "wrong"}]
    \cup {[base_uri |-> <<"http://other">>, token |-> "dummy_token"]}

\* The responses of the other HTTP server.
OtherResponses ==
    [status_code : {200, 302, 400, 401, 404, 405, 500, 501},
     headers : {<<>>, ("content-type" :> JSON_CONTENT_TYPE),
                ("content-type" :> "application/json"),
                ("content-type" :> HTML_CONTENT_TYPE)},
     body : {Undecodable, JsonObject(<<>>), JsonObject([error |-> "no"]),
             JsonObject([records |-> <<>>, profile |-> <<>>])}]

(***************************************************************************)
(* The steps.                                                              *)
(***************************************************************************)
Init ==
    /\ debug \in BOOLEAN
    /\ pc = "idle"
    /\ request = NoRequest
    /\ stream = Unsent
    /\ g = NoG
    /\ requestdata = Unread
    /\ raised = NoException
    /\ passed = {}
    /\ fetched = <<>>
    /\ response = NoResponse
    /\ client = NoClient
    /\ result = NoResult
    /\ history = NoHistory

\* A request line and headers arrive from some HTTP client.
Receive(path, headers) ==
    /\ pc = "idle"
    /\ pc' = "before_request"
    /\ request' = [path |-> path, headers |-> headers]
    /\ stream' = Unsent
    /\ requestdata' = Unread
    /\ raised' = NoException
    /\ passed' = {}
    /\ fetched' = <<>>
    /\ response' = NoResponse
    /\ client' = NoClient
    /\ result' = NoResult
    /\ UNCHANGED <<debug, g, history>>

\* before_request without the assignment of line 59: where the header does not
\* decide it, g.authorized stays as the last request left it.
before_request_NoReset ==
    /\ pc = "before_request"
    /\ LET o == g_authorized(request.headers)
           stale == IF g = NoG THEN [authorized |-> FALSE] ELSE g
           decided == /\ ~Raised(o)
                      /\ "Authorization" \in DOMAIN request.headers
                      /\ lower(request.headers["Authorization"][1]) = "token"
       IN IF Raised(o)
          THEN /\ g' = stale
               /\ raised' = o.raise
               /\ response' = error_response(o.raise, debug)
               /\ pc' = "responded"
          ELSE /\ g' = IF decided THEN o.value ELSE stale
               /\ pc' = "dispatch"
               /\ UNCHANGED <<raised, response>>
    /\ UNCHANGED <<debug, history, request, stream, requestdata, passed, fetched, client,
                   result>>

before_request ==
    /\ pc = "before_request"
    /\ LET o == g_authorized(request.headers)
       IN IF Raised(o)
          THEN /\ g' = [authorized |-> FALSE]
               /\ raised' = o.raise
               /\ response' = error_response(o.raise, debug)
               /\ pc' = "responded"
          ELSE /\ g' = o.value
               /\ pc' = "dispatch"
               /\ UNCHANGED <<raised, response>>
    /\ UNCHANGED <<debug, history, request, stream, requestdata, passed, fetched, client,
                   result>>

\* authrequired letting every request through to the view.
authrequired_Open(func) == func

\* The decorator of every view: 401 unless g.authorized, else the view.
authrequired(func) ==
    IF ~g.authorized
    THEN /\ response' = unauthorized_response
         /\ UNCHANGED <<stream, requestdata, raised, passed, fetched>>
    ELSE func

\* The body get_json() reads: the one the client sent, or any body.
Incoming ==
    IF stream # Unsent THEN {stream}
    ELSE IF history.state = "off" THEN Bodies ELSE RepeatBodies

catch_all ==
    /\ pc = "dispatch"
    /\ route(request.path) = "catch_all"
    /\ authrequired(
           /\ raised' = HTTPException(405)
           /\ response' = error_response(HTTPException(405), debug)
           /\ passed' = {"authrequired"}
           /\ UNCHANGED <<stream, requestdata, fetched>>)
    /\ pc' = "responded"
    /\ UNCHANGED <<debug, history, request, g, client, result>>

info ==
    /\ pc = "dispatch"
    /\ route(request.path) = "info"
    /\ authrequired(
           \E body \in Incoming :
               LET json == get_json(body)
                   o == IF Raised(json) THEN json ELSE info_body(json.value)
               IN /\ stream' = body
                  /\ requestdata' = IF Raised(json) THEN Unread ELSE json.value
                  /\ raised' = o.raise
                  /\ response' = IF Raised(o)
                                 THEN error_response(o.raise, debug)
                                 ELSE jsonify_response(o.value, 200)
                  /\ passed' = {"authrequired"}
                  /\ UNCHANGED fetched)
    /\ pc' = "responded"
    /\ UNCHANGED <<debug, history, request, g, client, result>>

lookup ==
    /\ pc = "dispatch"
    /\ route(request.path) = "lookup"
    /\ authrequired(
           \E body \in Incoming :
               LET json == get_json(body)
                   o == IF Raised(json)
                        THEN [raise |-> json.raise, value |-> <<>>, passed |-> {},
                              fetched |-> <<>>]
                        ELSE lookup_body(segments(request.path)[1],
                                         segments(request.path)[2],
                                         segments(request.path)[3], json.value)
               IN /\ stream' = body
                  /\ requestdata' = IF Raised(json) THEN Unread ELSE json.value
                  /\ raised' = o.raise
                  /\ response' = IF Raised(o)
                                 THEN error_response(o.raise, debug)
                                 ELSE jsonify_response(o.value, 200)
                  /\ passed' = {"authrequired"} \cup o.passed
                  /\ fetched' = o.fetched)
    /\ pc' = "responded"
    /\ UNCHANGED <<debug, history, request, g, client, result>>

\* exchange_data up to the request it issues.
exchange_data_send(cl, call, args, request_uri, request_args) ==
    LET uri == join_uri(cl.base_uri, request_uri)
    IN /\ client' = [call |-> call, base_uri |-> cl.base_uri, token |-> cl.token,
                     args |-> args, uri |-> uri]
       /\ request' = [path |-> Tail(uri), headers |-> request_headers(cl.token)]
       /\ stream' = JsonObject(request_args)
       /\ result' = [state |-> "sent", exchange |-> Return(<<>>), final |-> Return(<<>>)]
       /\ pc' = IF Head(uri) = "http://h" THEN "before_request" ELSE "foreign"

\* A call that raises before it issues a request.
rejected(cl, call, args, e) ==
    /\ client' = [call |-> call, base_uri |-> cl.base_uri, token |-> cl.token,
                  args |-> args, uri |-> <<>>]
    /\ request' = NoRequest
    /\ stream' = Unsent
    /\ result' = [state |-> "rejected", exchange |-> Return(<<>>), final |-> Raise(e)]
    /\ pc' = "done"

info_exchange(cl) ==
    /\ pc = "idle"
    /\ exchange_data_send(cl, "info", <<>>, <<>>, <<>>)
    /\ UNCHANGED <<debug, history, g, requestdata, raised, passed, fetched, response>>

records_exchange(cl, game, version, idtype, ids) ==
    /\ pc = "idle"
    /\ IF id_check(idtype, ids).class # "None"
       THEN rejected(cl, "records", <<game, version, idtype, ids>>, id_check(idtype, ids))
       ELSE exchange_data_send(cl, "records", <<game, version, idtype, ids>>,
                               lookup_uri(game, version),
                               [ids |-> ids, type |-> idtype, objects |-> <<"records">>])
    /\ UNCHANGED <<debug, history, g, requestdata, raised, passed, fetched, response>>

profile_exchange(cl, game, version, idtype, ids) ==
    /\ pc = "idle"
    /\ IF id_check(idtype, ids).class # "None"
       THEN rejected(cl, "profile", <<game, version, idtype, ids>>, id_check(idtype, ids))
       ELSE exchange_data_send(cl, "profile", <<game, version, idtype, ids>>,
                               lookup_uri(game, version),
                               [ids |-> ids, type |-> idtype, objects |-> <<"profile">>])
    /\ UNCHANGED <<debug, history, g, requestdata, raised, passed, fetched, response>>

\* The server behind a base URI that is not this server answers.
other_server(r) ==
    /\ pc = "foreign"
    /\ response' = r
    /\ pc' = "responded"
    /\ UNCHANGED <<debug, history, request, stream, g, requestdata, raised, passed, fetched,
                   client, result>>

\* exchange_data from the response on, and what its caller prints.
exchange_data ==
    /\ pc = "responded"
    /\ client # NoClient
    /\ LET o == exchange_result(response)
           keys == CASE client.call = "info" -> {"name", "email", "versions"}
                     [] client.call = "records" -> {"records"}
                     [] client.call = "profile" -> {"profile"}
       IN result' = [state |-> "finished", exchange |-> o,
                     final |-> IF Raised(o) THEN o ELSE read_keys(o.value, keys)]
    /\ pc' = "done"
    /\ UNCHANGED <<debug, history, request, stream, g, requestdata, raised, passed, fetched,
                   response, client>>

\* The history after the exchange that is ending: the first request this server
\* answered is recorded with its body and response.
remember ==
    LET answered == /\ request # NoRequest
                    /\ client # NoClient => Head(client.uri) = "http://h"
    IN CASE history.state = "empty" /\ answered ->
                [state |-> "recorded", request |-> request, stream |-> stream,
                 response |-> response, between |-> FALSE]
         [] /\ history.state = "recorded" /\ answered
            /\ <<request, stream>> # <<history.request, history.stream>>
            /\ g.authorized ->
                [history EXCEPT !.between = TRUE]
         [] OTHER -> history

\* The exchange is over: the locals of the view, the request and the client are
\* gone; g is left as it is (see the declaration of g).
Close ==
    /\ \/ pc = "done"
       \/ pc = "responded" /\ client = NoClient
    /\ pc' = "idle"
    /\ request' = NoRequest
    /\ stream' = Unsent
    /\ requestdata' = Unread
    /\ raised' = NoException
    /\ passed' = {}
    /\ fetched' = <<>>
    /\ response' = NoResponse
    /\ client' = NoClient
    /\ result' = NoResult
    /\ history' = remember
    /\ UNCHANGED <<debug, g>>

Next ==
    \/ \E path \in Paths, headers \in HeaderSets : Receive(path, headers)
    \/ before_request
    \/ catch_all
    \/ info
    \/ lookup
    \/ \E cl \in Clients : info_exchange(cl)
    \/ \E cl \in Clients, game \in Games, version \in RequestVersions,
          idtype \in IdTypes, ids \in IdLists :
            \/ records_exchange(cl, game, version, idtype, ids)
            \/ profile_exchange(cl, game, version, idtype, ids)
    \/ \E r \in OtherResponses : other_server(r)
    \/ exchange_data
    \/ Close

Spec == Init /\ [][Next]_vars

(***************************************************************************)
(* The server alone, with the history of the first request it answered.    *)
(***************************************************************************)
InitRepeat ==
    /\ debug \in BOOLEAN
    /\ pc = "idle"
    /\ request = NoRequest
    /\ stream = Unsent
    /\ g = NoG
    /\ requestdata = Unread
    /\ raised = NoException
    /\ passed = {}
    /\ fetched = <<>>
    /\ response = NoResponse
    /\ client = NoClient
    /\ result = NoResult
    /\ history = [NoHistory EXCEPT !.state = "empty"]

NextRepeat ==
    \/ \E path \in Paths, headers \in HeaderSets : Receive(path, headers)
    \/ before_request
    \/ catch_all
    \/ info
    \/ lookup
    \/ Close

SpecRepeat == InitRepeat /\ [][NextRepeat]_vars

(***************************************************************************)
(* The vocabulary of the properties.                                       *)
(***************************************************************************)
\* This server has answered the request in progress.
ServerAnswered ==
    /\ pc \in {"responded", "done"}
    /\ request # NoRequest
    /\ client.call # "none" => Head(client.uri) = "http://h"

\* The Authorization header is 'token <the shared secret>', the scheme in any case.
Authenticated(headers) ==
    /\ "Authorization" \in DOMAIN headers
    /\ Len(headers["Authorization"]) = 2
    /\ headers["Authorization"][1] \in {"Token", "token"}
    /\ headers["Authorization"][2] = "dummy_token"

OnLookup == ServerAnswered /\ route(request.path) = "lookup"

\* The body is a JSON object with the mandatory keys and no key but the allowed ones.
WellFormed(body) ==
    /\ body.kind = "object"
    /\ {"type", "ids", "objects"} \subseteq DOMAIN body.value
    /\ DOMAIN body.value \subseteq {"type", "ids", "objects", "since", "until"}

SupportedVersion == segments(request.path)[1] = <<"v1">>

\* The arity table of the ID selector.
ArityTable(idtype, n) ==
    \/ idtype = "card" /\ n >= 1
    \/ idtype = "song" /\ n \in {1, 2}
    \/ idtype = "instance" /\ n = 3
    \/ idtype = "server" /\ n = 0

SelectorInTable == ArityTable(stream.value["type"], Len(stream.value["ids"]))

\* The request ended in one of the two ID selector errors.
SelectorRejected ==
    /\ raised.class = "APIException"
    /\ raised.args[1] \in {"Invalid ID type provided!", "Invalid number of IDs given!"}

\* The response is an error response: not 200, and no aggregate in it.
ErrorOnly ==
    /\ response.status_code # 200
    /\ response.body.kind = "object" => DOMAIN response.body.value = {"error"}

KnownKinds == {"records", "profile", "statistics"}

(***************************************************************************)
(* C1: on the lookup route, for an authorized request with a well-formed   *)
(* envelope and a supported protocol version, the ID selector is accepted  *)
(* if and only if it is in the arity table; a selector outside the table   *)
(* is rejected with an error, without an aggregate response and without a  *)
(* fetch.                                                                  *)
(***************************************************************************)
C1_ArityEnforced ==
    (/\ OnLookup
     /\ Authenticated(request.headers)
     /\ WellFormed(stream)
     /\ SupportedVersion)
    => /\ SelectorInTable <=> ("ids" \in passed)
       /\ SelectorInTable <=> ~SelectorRejected
       /\ ~SelectorInTable => ErrorOnly /\ fetched = <<>>

C1_Witness ==
    /\ OnLookup
    /\ Authenticated(request.headers)
    /\ WellFormed(stream)
    /\ SupportedVersion
    /\ stream.value["type"] = "instance"
    /\ Len(stream.value["ids"]) = 2
    /\ SelectorRejected
    /\ ErrorOnly

C3_Unauthenticated401 ==
    (ServerAnswered /\ ~Authenticated(request.headers))
    => /\ response.status_code = 401
       /\ response.body = JsonObject([error |-> "Unauthorized client!"])
       /\ requestdata = Unread
       /\ passed = {}
       /\ fetched = <<>>

(***************************************************************************)
(* C4, as claimed: an Authorization header value without a space raises no *)
(* exception; the request is marked not authorized and answered with 401,  *)
(* not with 500.                                                           *)
(***************************************************************************)
C4_NoSpaceIsUnauthorized ==
    (/\ ServerAnswered
     /\ "Authorization" \in DOMAIN request.headers
     /\ Len(request.headers["Authorization"]) = 1)
    => /\ raised = NoException
       /\ g = [authorized |-> FALSE]
       /\ response.status_code = 401

(***************************************************************************)
(* C5, as claimed: an authorized lookup request with a supported protocol  *)
(* version whose ID selector is outside the arity table is answered with   *)
(* the invalid-ID error under a 400-class status, and nothing is fetched.  *)
(***************************************************************************)
C5_InvalidSelector400 ==
    (/\ OnLookup
     /\ Authenticated(request.headers)
     /\ WellFormed(stream)
     /\ SupportedVersion
     /\ ~SelectorInTable)
    => /\ response.status_code \in 400..499
       /\ response.body.kind = "object"
       /\ response.body.value \in
              {[error |-> "Invalid ID type provided!"],
               [error |-> "Invalid number of IDs given!"]}
       /\ fetched = <<>>

(***************************************************************************)
(* C6: if the objects list of an otherwise valid, authorized lookup        *)
(* request holds an unknown object kind at any position, the request ends  *)
(* in the unknown-object-kind error, 404, whose body holds the error and   *)
(* nothing else: no result of a kind resolved earlier in the list.         *)
(***************************************************************************)
C6_UnknownKindAborts ==
    (/\ OnLookup
     /\ Authenticated(request.headers)
     /\ WellFormed(stream)
     /\ SupportedVersion
     /\ SelectorInTable
     /\ \E i \in DOMAIN stream.value["objects"] :
            stream.value["objects"][i] \notin KnownKinds)
    => /\ response.status_code = 404
       /\ response.body =
              JsonObject([error |-> "Unrecognized request game/version or object."])

\* An unknown kind in the middle of the list, after a kind that was fetched.
C6_Witness ==
    /\ OnLookup
    /\ Authenticated(request.headers)
    /\ WellFormed(stream)
    /\ SupportedVersion
    /\ stream.value["objects"] = <<"records", "scores", "statistics">>
    /\ Len(fetched) = 1
    /\ response.status_code = 404

(***************************************************************************)
(* C7: an authorized lookup request that passes the version gate and the   *)
(* ID validation and whose objects are all known kinds is answered with    *)
(* 200 and a body whose keys are exactly the kinds listed in objects, each *)
(* with its handler's result, the empty list; a kind listed twice is no    *)
(* error and gives one key.                                                *)
(***************************************************************************)
C7_AggregateKeys ==
    (/\ OnLookup
     /\ Authenticated(request.headers)
     /\ WellFormed(stream)
     /\ SupportedVersion
     /\ SelectorInTable
     /\ \A i \in DOMAIN stream.value["objects"] :
            stream.value["objects"][i] \in KnownKinds)
    => /\ response.status_code = 200
       /\ response.headers["content-type"] = JSON_CONTENT_TYPE
       /\ response.body.kind = "object"
       /\ DOMAIN response.body.value = Range(stream.value["objects"])
       /\ \A k \in DOMAIN response.body.value : response.body.value[k] = <<>>
       /\ Len(fetched) = Len(stream.value["objects"])

\* A kind listed twice.
C7_Witness ==
    /\ OnLookup
    /\ Authenticated(request.headers)
    /\ WellFormed(stream)
    /\ SupportedVersion
    /\ SelectorInTable
    /\ stream.value["objects"] = <<"records", "statistics", "records">>
    /\ response.status_code = 200
    /\ DOMAIN response.body.value = {"records", "statistics"}

(***************************************************************************)
(* C8: the client's pre-flight ID check and the server's ID validation     *)
(* agree on every ID selector whose type is not 'instance': the client     *)
(* accepts it if and only if the server does, and both reject an unknown   *)
(* type; for 'instance' the client always rejects and the server accepts   *)
(* exactly 3 ids.  The verdict of the side that ran is read from the       *)
(* state, that of the other side from its validation of the same selector. *)
(***************************************************************************)
Agree(idtype, n, clientAccepts, serverAccepts) ==
    /\ idtype # "instance" => (clientAccepts <=> serverAccepts)
    /\ idtype \notin {"card", "song", "instance", "server"} =>
           ~clientAccepts /\ ~serverAccepts
    /\ idtype = "instance" => ~clientAccepts /\ (serverAccepts <=> n = 3)

C8_ValidatorsAgree ==
    /\ client.call \in {"records", "profile"} =>
           Agree(client.args[3], Len(client.args[4]),
                 result.state # "rejected",
                 lookup_ids(client.args[3], client.args[4]).class = "None")
    /\ (/\ OnLookup
        /\ Authenticated(request.headers)
        /\ WellFormed(stream)
        /\ SupportedVersion) =>
           Agree(stream.value["type"], Len(stream.value["ids"]),
                 id_check(stream.value["type"], stream.value["ids"]).class = "None",
                 ~SelectorRejected)

\* The client refuses an 'instance' selector that the server accepts.
C8_Witness ==
    /\ client.call = "records"
    /\ client.args[3] = "instance"
    /\ Len(client.args[4]) = 3
    /\ result.state = "rejected"
    /\ result.final.raise = InvalidIDType
    /\ request = NoRequest

(***************************************************************************)
(* C9 and C10: the vocabulary of the client's exchange.                    *)
(***************************************************************************)
ClientFinished == pc = "done" /\ result.state = "finished"

CorrectContentType ==
    /\ "content-type" \in DOMAIN response.headers
    /\ response.headers["content-type"] = JSON_CONTENT_TYPE

HasErrorKey == response.body.kind = "object" /\ "error" \in DOMAIN response.body.value

ExchangeReturns(v) == ~Raised(result.exchange) /\ result.exchange.value = v

ExchangeFails(e) == Raised(result.exchange) /\ result.exchange.raise = e

\* The failure the claim gives each status.
StatusFailure(status) ==
    CASE status = 401 -> Unauthorized
      [] status = 404 -> UnsupportedGameOrVersionOrObject
      [] status = 405 -> RequestNotRecognized
      [] status = 500 -> ServerInternalError
      [] status = 501 -> UnsupportedProtocolVersion
      [] OTHER -> UnexpectedStatusCode(status)

StatusMapping ==
    /\ response.status_code = 200 => ExchangeReturns(response.body.value)
    /\ response.status_code # 200 /\ HasErrorKey =>
           ExchangeFails(StatusFailure(response.status_code))
    /\ response.status_code # 200 /\ ~HasErrorKey => ExchangeFails(MalformedErrorResponse)

(***************************************************************************)
(* C9, as claimed: for a response with the correct content type, status    *)
(* 200 returns the parsed body, a non-200 status with an 'error' key in    *)
(* the body is the failure of that status, a non-200 status without the    *)
(* key is MalformedErrorResponse; the exchange always ends in one of these.*)
(***************************************************************************)
C9_StatusMappingTotal == (ClientFinished /\ CorrectContentType) => StatusMapping

(***************************************************************************)
(* C9, amended: the same, for a response with the correct content type     *)
(* whose body decodes to a JSON object.                                    *)
(***************************************************************************)
C9_StatusMappingOfJson ==
    (ClientFinished /\ CorrectContentType /\ response.body.kind = "object")
    => StatusMapping

\* A status outside the table with an 'error' key: the default failure.
C9_Witness ==
    /\ ClientFinished
    /\ CorrectContentType
    /\ response.status_code = 302
    /\ HasErrorKey
    /\ ExchangeFails(UnexpectedStatusCode(302))

(***************************************************************************)
(* C10, as claimed: a response whose content type is not exactly           *)
(* 'application/json; charset=utf-8' ends in InvalidContentType, for every *)
(* status and body.                                                        *)
(***************************************************************************)
C10_InvalidContentType ==
    (ClientFinished /\ ~CorrectContentType) => ExchangeFails(InvalidContentType)

(***************************************************************************)
(* C11: the URI the client requests is the base URI, one '/', and the path *)
(* of the call: base + path when the base ends with '/', base + '/' + path *)
(* otherwise.  'http://h' and 'http://h/' give the same URI for the same   *)
(* call, with no '/' doubled and none missing, and the server is asked for *)
(* '/' + path.                                                             *)
(***************************************************************************)
\* The client has issued a request.
Sent == client.call # "none" /\ result.state \in {"sent", "finished"}

\* The path the call hands to exchange_data.
RequestUri ==
    IF client.call = "info" THEN <<>> ELSE lookup_uri(client.args[1], client.args[2])

EndsWithSlash(b) == b # <<>> /\ b[Len(b)] = "/"

C11_OneSeparator ==
    Sent =>
        /\ client.uri = IF EndsWithSlash(client.base_uri)
                        THEN client.base_uri \o RequestUri
                        ELSE client.base_uri \o <<"/">> \o RequestUri
        /\ client.base_uri \in {<<"http://h">>, <<"http://h", "/">>} =>
               client.uri = <<"http://h", "/">> \o RequestUri
        /\ \A i \in 1..(Len(client.uri) - 1) :
               ~(client.uri[i] = "/" /\ client.uri[i + 1] = "/")
        /\ request.path = <<"/">> \o RequestUri

\* 'http://h/' joined with '' is 'http://h/'.
C11_Witness ==
    /\ Sent
    /\ client.call = "info"
    /\ client.base_uri = <<"http://h", "/">>
    /\ client.uri = <<"http://h", "/">>
    /\ response.status_code = 200

(***************************************************************************)
(* C12: on the lookup route every handler that is invoked was built with   *)
(* the game segment unchanged and, if the version segment starts with 'o', *)
(* omnimix true and the segment without that one character, otherwise      *)
(* omnimix false and the segment unchanged.                                *)
(***************************************************************************)
C12_HandlerBinding ==
    OnLookup =>
        \A i \in DOMAIN fetched :
            LET segs == segments(request.path)
                inst == fetched[i].inst
            IN /\ inst.game = segs[2]
               /\ segs[3][1] = "o" =>
                      /\ inst.omnimix = TRUE
                      /\ inst.version = SubSeq(segs[3], 2, Len(segs[3]))
               /\ segs[3][1] # "o" =>
                      /\ inst.omnimix = FALSE
                      /\ inst.version = segs[3]

\* '/v1/gameX/oo1': one 'o' is taken off.
C12_Witness ==
    /\ OnLookup
    /\ segments(request.path)[3] = <<"o", "o", "1">>
    /\ Len(fetched) = 2
    /\ fetched[2].inst = BaseObject("StatisticsObject", <<"gameX">>, <<"o", "1">>, TRUE)

(***************************************************************************)
(* C13, as claimed: on the lookup route an authorized request whose        *)
(* envelope lacks one of 'type', 'ids', 'objects' is answered with the     *)
(* MissingParameters error, one that has the three and a key other than    *)
(* 'since' and 'until' besides with the UnrecognizedParameters error, both *)
(* under a 400-class status; an envelope with the three keys and any of    *)
(* 'since' and 'until' passes the check.                                   *)
(***************************************************************************)
C13_EnvelopeKeys ==
    (OnLookup /\ Authenticated(request.headers) /\ stream.kind = "object") =>
        LET keys == DOMAIN stream.value
        IN /\ ~({"type", "ids", "objects"} \subseteq keys) =>
                  /\ response.status_code \in 400..499
                  /\ response.body = JsonObject([error |-> "Missing parameters for request."])
           /\ ({"type", "ids", "objects"} \subseteq keys /\ ~WellFormed(stream)) =>
                  /\ response.status_code \in 400..499
                  /\ response.body =
                         JsonObject([error |-> "Unrecognized parameters for request."])
           /\ WellFormed(stream) => "envelope" \in passed

(***************************************************************************)
(* C14: an authorized request to a path that is neither '/' nor a path of  *)
(* three segments is answered with 405 and the error body of the           *)
(* MethodNotAllowed outcome; its body is never read.                       *)
(***************************************************************************)
OtherPath ==
    LET segs == segments(request.path)
    IN /\ segs # << <<>> >>
       /\ ~(Len(segs) = 3 /\ \A i \in 1..3 : segs[i] # <<>>)

Repeated ==
    /\ history.state = "recorded"
    /\ pc = "responded"
    /\ request = history.request
    /\ stream = history.stream

C15_Stateless ==
    Repeated =>
        /\ response.status_code = history.response.status_code
        /\ response.body = history.response.body
        /\ response = history.response

\* A request without an Authorization header gets 401 again after an
\* authorized request has been answered.
C15_Witness ==
    /\ Repeated
    /\ history.between
    /\ "Authorization" \notin DOMAIN request.headers
    /\ route(request.path) = "lookup"
    /\ history.response.status_code = 401
    /\ response.status_code = 401

(***************************************************************************)
(* C16: on the lookup route a fetch is invoked only in a request that has  *)
(* passed the authentication gate, the envelope key validation, the        *)
(* protocol-version gate and the ID selector validation: a request that    *)
(* fails one of them invokes no handler.                                   *)
(***************************************************************************)
C16_FetchAfterChecks ==
    fetched # <<>> =>
        /\ OnLookup
        /\ Authenticated(request.headers)
        /\ g = [authorized |-> TRUE]
        /\ WellFormed(stream)
        /\ SupportedVersion
        /\ SelectorInTable
        /\ {"authrequired", "envelope", "version", "ids"} \subseteq passed

\* A fetch for an 'instance' selector of three ids.
C16_Witness ==
    /\ OnLookup
    /\ Len(fetched) = 1
    /\ fetched[1].idtype = "instance"
    /\ Len(fetched[1].ids) = 3
    /\ passed = {"authrequired", "envelope", "version", "ids"}
    /\ response.status_code = 200

(***************************************************************************)
(* C17: the status of the response to an ID selector validation failure is *)
(* neither 401, the status of an authentication failure, nor 501, the      *)
(* status of an unsupported protocol version.                              *)
(***************************************************************************)
\* The request was refused by the authentication gate.
AuthenticationFailure ==
    ServerAnswered /\ raised = NoException /\ g = [authorized |-> FALSE]

\* The request was refused for its protocol version.
VersionFailure == ServerAnswered /\ raised = HTTPException(501)

C17_SelectorStatusDistinct ==
    /\ AuthenticationFailure => response.status_code = 401
    /\ VersionFailure => response.status_code = 501
    /\ (ServerAnswered /\ SelectorRejected) => response.status_code \notin {401, 501}

\* An unsupported ID type is answered with 500.
C17_Witness ==
    /\ OnLookup
    /\ Authenticated(request.headers)
    /\ raised = APIException("Invalid ID type provided!")
    /\ stream.value["type"] = "user"
    /\ response.status_code = 500

(***************************************************************************)
(* C18, as claimed: an authorized request whose body cannot be decoded as  *)
(* JSON is answered with the malformed-request error under status 400,     *)
(* never under 500 or 501.                                                 *)
(***************************************************************************)
C18_Undecodable400 ==
    (ServerAnswered /\ Authenticated(request.headers) /\ stream = Undecodable) =>
        /\ response.body = JsonObject([error |-> "Request JSON could not be decoded."])
        /\ response.status_code = 400
        /\ response.status_code \notin {500, 501}

(***************************************************************************)
(* C19, as claimed: every response of the server has the content type      *)
(* 'application/json; charset=utf-8', every response with a status other   *)
(* than 200 has a JSON object body with an 'error' key, and an exchange of *)
(* the client with this server never ends in InvalidContentType or         *)
(* MalformedErrorResponse.                                                 *)
(***************************************************************************)
C19_UniformErrors ==
    ServerAnswered =>
        /\ CorrectContentType
        /\ response.status_code # 200 => HasErrorKey
        /\ ClientFinished =>
               /\ ~ExchangeFails(InvalidContentType)
               /\ ~ExchangeFails(MalformedErrorResponse)

(***************************************************************************)
(* C20: records_exchange and profile_exchange run the ID check before      *)
(* anything is sent.  When the check fails no request is issued; every     *)
(* lookup request that is issued has exactly the keys 'ids', 'type' and    *)
(* 'objects' and an ID selector of the server's arity table, and the       *)
(* server never refuses it for missing or unrecognized parameters, for its *)
(* ID type or for its ID count.                                            *)
(***************************************************************************)
\* The selectors the client lets through.
ClientTable(idtype, n) ==
    \/ idtype = "card" /\ n >= 1
    \/ idtype = "song" /\ n \in {1, 2}
    \/ idtype = "server" /\ n = 0

LookupCall == client.call \in {"records", "profile"}

C20_PreflightSuffices ==
    LookupCall =>
        /\ result.state = "rejected" <=> ~ClientTable(client.args[3], Len(client.args[4]))
        /\ result.state = "rejected" =>
               /\ request = NoRequest
               /\ stream = Unsent
               /\ response = NoResponse
               /\ Raised(result.final)
        /\ Sent =>
               /\ stream.kind = "object"
               /\ DOMAIN stream.value = {"ids", "type", "objects"}
               /\ stream.value["type"] = client.args[3]
               /\ stream.value["ids"] = client.args[4]
               /\ WellFormed(stream)
               /\ SelectorInTable
        /\ ServerAnswered =>
               /\ raised.class # "APIException"
               /\ Authenticated(request.headers) => {"envelope", "ids"} \subseteq passed

\* A profile request for a card, answered by the server.
C20_Witness ==
    /\ client.call = "profile"
    /\ ClientFinished
    /\ ServerAnswered
    /\ client.args[3] = "card"
    /\ Len(client.args[4]) = 3
    /\ {"envelope", "ids"} \subseteq passed
    /\ ExchangeReturns([profile |-> <<>>])

====
